---- MODULE Spec2Model ----
(***************************************************************************)
(* Model of the angular-maps Bing provider:                                *)
(*   - Marker.CreateMarker and its icon cache   (src/src/models/marker.ts) *)
(*   - BingLayer entity operations              (src/models/binglayer.ts)  *)
(*   - BingMapService map lifecycle and its map-dependent operations       *)
(*                                          (src/services/bingmapservice.ts)*)
(*                                                                         *)
(* JavaScript values that may be null/undefined are modelled as optional   *)
(* values: Null is the empty tuple, Some(v) the one-element tuple <<v>>.   *)
(***************************************************************************)
EXTENDS Integers, Sequences, FiniteSets, TLC

VARIABLES
    MarkerCache,    \* Marker.MarkerCache: id -> IMarkerIconCacheEntry
    imageLoads,     \* images created by image markers whose load event is due
    lastStep,       \* how the last CreateMarker call / load event ended
    primitives,     \* BingLayer._layer: the primitives of the native layer, in order
    layerCall,      \* the last BingLayer entity method called, with its argument
    loaderLoaded,   \* MapAPILoader: the promise returned by Load() is fulfilled
    loaderWaiting,  \* CreateMap continuations registered on the loader's promise
    microtasks,     \* promise reactions ready to run, in order
    mapPromise,     \* BingMapService._map, with the resolver kept in _mapResolver
    mapInstance,    \* BingMapService._mapInstance
    maps,           \* the Microsoft.Maps.Map objects constructed so far
    layerHome,      \* per native layer created: the map it was inserted into
    layerDisposed,  \* native layers on which dispose() was called
    moduleLoads,    \* Microsoft.Maps.loadModule calls whose callback is due
    rejections,     \* reactions that threw: the promise then() returned is rejected
    observers       \* observers subscribed to a map event: handler and notifications

markerVars == <<MarkerCache, imageLoads, lastStep>>

layerVars == <<primitives, layerCall>>

serviceVars ==
    <<loaderLoaded, loaderWaiting, microtasks, mapPromise, mapInstance, maps,
      layerHome, layerDisposed, moduleLoads, rejections,
      observers>>

----------------------------------------------------------------------------
(* Optional values                                                         *)

Null == <<>>

Some(v) == <<v>>

IsNull(x) == x = Null

Val(x) == x[1]

----------------------------------------------------------------------------
(* Bounds                                                                  *)

\* images that may be waiting for their load event at the same time
MaxImageLoads == 2

\* primitives a layer may hold, and entities a SetEntities call may pass
MaxPrimitives == 3

\* CreateMap calls made in a run
MaxMaps == 2

\* map-dependent operations requested and not yet carried out
MaxOps == 1

\* layers created in a run
MaxLayers == 1

\* observers that subscribe to a map event in a run
MaxObservers == 1

\* notifications an observer may have received when another event is triggered
MaxNotifications == 2

----------------------------------------------------------------------------
(* IMarkerIconInfo values used as requests                                 *)

MarkerTypeId ==
    {"CanvasMarker", "DynmaicCircleMarker", "FontMarker",
     "RotatedImageMarker", "RoundedImageMarker", "ScaledImageMarker"}

ImageMarkerTypes == {"RotatedImageMarker", "RoundedImageMarker", "ScaledImageMarker"}

Ids == {"a", "b"}

Size(w, h) == [width |-> w, height |-> h]

\* the fields of IMarkerIconInfo the six functions validate
RequiredFields ==
    [CanvasMarker        |-> {"size", "points"},
     DynmaicCircleMarker |-> {"size"},
     FontMarker          |-> {"fontName", "fontSize"},
     RotatedImageMarker  |-> {"rotation", "url", "callback"},
     RoundedImageMarker  |-> {"size", "url", "callback"},
     ScaledImageMarker   |-> {"scale", "url", "callback"}]

\* the value a request gives a field when it supplies it
Supplied ==
    [size     |-> Some(Size(4, 2)),
     points   |-> Some("arrow"),
     fontName |-> Some("FontAwesome"),
     fontSize |-> Some(3),
     text     |-> Some("x"),
     rotation |-> Some(90),
     url      |-> Some("u.png"),
     callback |-> Some("cb"),
     scale    |-> Some(2)]

FieldNames == DOMAIN Supplied

\* A request of marker type t with id i that supplies exactly the fields in
\* given; every other field is undefined.
IconInfo(t, i, given) ==
    [markerType |-> t,
     id         |-> i,
     size       |-> IF "size" \in given THEN Supplied.size ELSE Null,
     points     |-> IF "points" \in given THEN Supplied.points ELSE Null,
     fontName   |-> IF "fontName" \in given THEN Supplied.fontName ELSE Null,
     fontSize   |-> IF "fontSize" \in given THEN Supplied.fontSize ELSE Null,
     text       |-> IF "text" \in given THEN Supplied.text ELSE Null,
     rotation   |-> IF "rotation" \in given THEN Supplied.rotation ELSE Null,
     url        |-> IF "url" \in given THEN Supplied.url ELSE Null,
     callback   |-> IF "callback" \in given THEN Supplied.callback ELSE Null,
     scale      |-> IF "scale" \in given THEN Supplied.scale ELSE Null]

\* Fields the requests vary besides the validated ones.  The remaining
\* optional fields (color, strokeWidth, drawingOffset, the rotation of a canvas
\* or font marker, the size of a rotated image) only change what is drawn and
\* are left undefined by every request.
OptionalFields ==
    [CanvasMarker        |-> {},
     DynmaicCircleMarker |-> {},
     FontMarker          |-> {"text"},
     RotatedImageMarker  |-> {},
     RoundedImageMarker  |-> {},
     ScaledImageMarker   |-> {}]

\* The requests of marker type t: every id (or none) and every combination of
\* present and absent fields among those the type's function reads.
RequestsOf(t) ==
    {IconInfo(t, i, g) :
        i \in {Null} \cup {Some(k) : k \in Ids},
        g \in SUBSET (RequiredFields[t] \cup OptionalFields[t])}

----------------------------------------------------------------------------
(* Rendering: the string produced by canvas.toDataURL() / the SVG text is  *)
(* a function of what was drawn.  A string is modelled by the drawing it   *)
(* encodes; EmptyString is "".                                             *)

DataUrl(kind, w, h, rot, src, txt) ==
    [kind |-> kind, width |-> w, height |-> h, rotation |-> rot, src |-> src, text |-> txt]

EmptyString == DataUrl("", 0, 0, Null, Null, Null)

\* HTMLImageElement natural size of the picture behind a url
NaturalSize(url) == Size(6, 2)

\* ctx.measureText(text).width for the font in use
MeasureText(fontSize, text) == IF IsNull(text) THEN 9 * fontSize ELSE fontSize

\* image.width / image.height in CreateRotatedImageMarker: the size given, or
\* the picture's own
ImageSize(info) == IF IsNull(info.size) THEN NaturalSize(Val(info.url)) ELSE Val(info.size)

\* |ceil(w cos r + h sin r)| and |ceil(w sin r + h cos r)| for r = 0 or 90 degrees
RotatedSize(s, rot) == IF rot = 90 THEN Size(s.height, s.width) ELSE s

----------------------------------------------------------------------------
(* The icon cache (a JavaScript Map) as a function on the ids it holds     *)

\* a cache that is never consulted
CacheHasNever(cache, id) == FALSE

CacheHas(cache, id) == ~IsNull(id) /\ Val(id) \in DOMAIN cache

CacheEntry(s, size) == [markerIconString |-> s, markerSize |-> size]

\* a cache that keeps only the entry written last
CacheSetEvicting(cache, k, entry) == [x \in {k} |-> entry]

CacheSet(cache, k, entry) ==
    [x \in DOMAIN cache \cup {k} |-> IF x = k THEN entry ELSE cache[x]]

\* if (iconInfo.id != null) Marker.MarkerCache.set(iconInfo.id, {...})
CacheStore(cache, id, s, size) ==
    IF IsNull(id) THEN cache ELSE CacheSet(cache, Val(id), CacheEntry(s, size))

----------------------------------------------------------------------------
(* What one call of a Create...Marker function, or one onload handler,     *)
(* does: whether it threw, what it returned, iconInfo.size afterwards, the *)
(* cache afterwards, the iconInfo.callback invocations it made (each with  *)
(* the image and size passed and the cache as it was at that moment), the  *)
(* image it left loading, and whether it drew a new image.                 *)

Effect(threw, ret, size, cache, callbacks, load, generated) ==
    [threw |-> threw, ret |-> ret, size |-> size, cache |-> cache,
     callbacks |-> callbacks, load |-> load, generated |-> generated]

\* throw Error(...)
Throw(info, cache) == Effect(TRUE, Null, info.size, cache, <<>>, Null, FALSE)

\* iconInfo.size = mi.markerSize; return mi.markerIconString;
ReturnCached(info, cache) ==
    LET mi == cache[Val(info.id)]
    IN  Effect(FALSE, Some(mi.markerIconString), mi.markerSize, cache, <<>>, Null, FALSE)

\* iconInfo.size = mi.markerSize; iconInfo.callback(mi.markerIconString, iconInfo); return "";
CallbackCached(info, cache) ==
    LET mi == cache[Val(info.id)]
    IN  Effect(FALSE, Some(EmptyString), mi.markerSize, cache,
               <<[image |-> mi.markerIconString, size |-> mi.markerSize, cache |-> cache]>>,
               Null, FALSE)

\* let s = ...; if (id != null) MarkerCache.set(...); return s;
ReturnNew(info, cache, s, size) ==
    Effect(FALSE, Some(s), size, CacheStore(cache, info.id, s, size), <<>>, Null, TRUE)

\* image.onload = function () {...}; return "";
StartLoad(info, cache) ==
    Effect(FALSE, Some(EmptyString), info.size, cache, <<>>, Some(info), FALSE)

\* an onload handler that calls back before it writes the cache
LoadedCallbackFirst(info, cache, s, size) ==
    Effect(FALSE, Null, size, CacheStore(cache, info.id, s, size),
           <<[image |-> s, size |-> size, cache |-> cache]>>, Null, TRUE)

\* the tail of each onload handler: iconInfo.size = {...}; s = c.toDataURL();
\* if (id != null) MarkerCache.set(...); iconInfo.callback(s, iconInfo);
Loaded(info, cache, s, size) ==
    LET stored == CacheStore(cache, info.id, s, size)
    IN  Effect(FALSE, Null, size, stored,
               <<[image |-> s, size |-> size, cache |-> stored]>>, Null, TRUE)

\* window.document
document == Some("document")

----------------------------------------------------------------------------
(* The argument checks of the six functions                                *)

CanvasArgsMissing(info) == IsNull(info.size) \/ IsNull(info.points)

CircleArgsMissing(info) == IsNull(info.size)

FontArgsMissing(info) == IsNull(info.fontName) \/ IsNull(info.fontSize)

RotatedArgsMissing(info) ==
    IsNull(info.rotation) \/ IsNull(info.url) \/ IsNull(info.callback)

\* a check that forgets the callback
RoundedArgsMissingNoCallback(info) == IsNull(info.size) \/ IsNull(info.url)

RoundedArgsMissing(info) ==
    IsNull(info.size) \/ IsNull(info.url) \/ IsNull(info.callback)

ScaledArgsMissing(info) ==
    IsNull(info.scale) \/ IsNull(info.url) \/ IsNull(info.callback)

----------------------------------------------------------------------------
(* The six functions                                                       *)

CreateCanvasMarker(info, cache) ==
    IF IsNull(document) THEN Throw(info, cache)
    ELSE IF CanvasArgsMissing(info) THEN Throw(info, cache)
    ELSE IF CacheHas(cache, info.id) THEN ReturnCached(info, cache)
    ELSE LET size == Val(info.size)
             s == DataUrl("CanvasMarker", size.width, size.height, info.rotation, Null, Null)
         IN  ReturnNew(info, cache, s, info.size)

CreateDynmaicCircleMarker(info, cache) ==
    IF IsNull(document) THEN Throw(info, cache)
    ELSE IF CircleArgsMissing(info) THEN Throw(info, cache)
    ELSE IF CacheHas(cache, info.id) THEN ReturnCached(info, cache)
    ELSE LET size == Val(info.size)
             s == DataUrl("DynmaicCircleMarker", size.width, size.width, Null, Null, Null)
         IN  ReturnNew(info, cache, s, info.size)

CreateFontBasedMarker(info, cache) ==
    IF IsNull(document) THEN Throw(info, cache)
    ELSE IF FontArgsMissing(info) THEN Throw(info, cache)
    ELSE IF CacheHas(cache, info.id) THEN ReturnCached(info, cache)
    ELSE LET w == MeasureText(Val(info.fontSize), info.text)
             h == Val(info.fontSize)
             s == DataUrl("FontMarker", w, h, info.rotation, Null, info.text)
         IN  ReturnNew(info, cache, s, Some(Size(w, h)))

CreateRotatedImageMarker(info, cache) ==
    IF IsNull(document) THEN Throw(info, cache)
    ELSE IF RotatedArgsMissing(info) THEN Throw(info, cache)
    ELSE IF CacheHas(cache, info.id) THEN CallbackCached(info, cache)
    ELSE StartLoad(info, cache)

CreateRoundedImageMarker(info, cache) ==
    IF IsNull(document) THEN Throw(info, cache)
    ELSE IF RoundedArgsMissing(info) THEN Throw(info, cache)
    ELSE IF CacheHas(cache, info.id) THEN CallbackCached(info, cache)
    ELSE StartLoad(info, cache)

CreateScaledImageMarker(info, cache) ==
    IF IsNull(document) THEN Throw(info, cache)
    ELSE IF ScaledArgsMissing(info) THEN Throw(info, cache)
    ELSE IF CacheHas(cache, info.id) THEN CallbackCached(info, cache)
    ELSE StartLoad(info, cache)

\* Marker.CreateMarker: the switch on iconInfo.markerType
CreateMarker(info, cache) ==
    CASE info.markerType = "CanvasMarker"        -> CreateCanvasMarker(info, cache)
      [] info.markerType = "DynmaicCircleMarker" -> CreateDynmaicCircleMarker(info, cache)
      [] info.markerType = "FontMarker"          -> CreateFontBasedMarker(info, cache)
      [] info.markerType = "RotatedImageMarker"  -> CreateRotatedImageMarker(info, cache)
      [] info.markerType = "RoundedImageMarker"  -> CreateRoundedImageMarker(info, cache)
      [] info.markerType = "ScaledImageMarker"   -> CreateScaledImageMarker(info, cache)
      [] OTHER                                   -> Throw(info, cache)

----------------------------------------------------------------------------
(* The onload handlers of the three image markers                          *)

RotatedImageOnload(info, cache) ==
    LET c == RotatedSize(ImageSize(info), Val(info.rotation))
        s == DataUrl("RotatedImageMarker", c.width, c.height, info.rotation, info.url, Null)
    IN  Loaded(info, cache, s, Some(c))

RoundedImageOnload(info, cache) ==
    LET w == Val(info.size).width
        s == DataUrl("RoundedImageMarker", w, w, Null, info.url, Null)
    IN  Loaded(info, cache, s, Some(Size(w, w)))

ScaledImageOnload(info, cache) ==
    LET n == NaturalSize(Val(info.url))
        c == Size(n.width * Val(info.scale), n.height * Val(info.scale))
        s == DataUrl("ScaledImageMarker", c.width, c.height, Null, info.url, Null)
    IN  Loaded(info, cache, s, Some(c))

ImageOnload(info, cache) ==
    CASE info.markerType = "RotatedImageMarker" -> RotatedImageOnload(info, cache)
      [] info.markerType = "RoundedImageMarker" -> RoundedImageOnload(info, cache)
      [] info.markerType = "ScaledImageMarker"  -> ScaledImageOnload(info, cache)

----------------------------------------------------------------------------
(* Images waiting for their load event: a bag of the iconInfo each onload  *)
(* closure captured                                                        *)

BagCount(b, x) == IF x \in DOMAIN b THEN b[x] ELSE 0

BagSize(b) ==
    LET RECURSIVE Sum(_)
        Sum(S) == IF S = {} THEN 0
                  ELSE LET x == CHOOSE y \in S : TRUE IN b[x] + Sum(S \ {x})
    IN  Sum(DOMAIN b)

BagAdd(b, x) == [y \in DOMAIN b \cup {x} |-> BagCount(b, y) + (IF y = x THEN 1 ELSE 0)]

BagRemove(b, x) ==
    [y \in {z \in DOMAIN b : z # x \/ b[z] > 1} |-> b[y] - (IF y = x THEN 1 ELSE 0)]

EmptyBag == [x \in {} |-> 0]

----------------------------------------------------------------------------------------------------------------------------------------------------
(* Actions of the marker helper                                            *)

\* How a call or load event ended, as an observer of the call sees it.
StepKind(e) ==
    IF e.threw THEN "threw"
    ELSE IF ~IsNull(e.load) THEN "loading"
    ELSE IF e.generated /\ IsNull(e.ret) THEN "loaded"
    ELSE IF e.generated THEN "generated"
    ELSE "cached"

\* the requests of each marker type
CanvasMarkerRequests == RequestsOf("CanvasMarker")

DynmaicCircleMarkerRequests == RequestsOf("DynmaicCircleMarker")

FontMarkerRequests == RequestsOf("FontMarker")

RotatedImageMarkerRequests == RequestsOf("RotatedImageMarker")

RoundedImageMarkerRequests == RequestsOf("RoundedImageMarker")

ScaledImageMarkerRequests == RequestsOf("ScaledImageMarker")

MarkerInit ==
    /\ MarkerCache = [k \in {} |-> Null]
    /\ imageLoads = EmptyBag
    /\ lastStep = "none"

\* A caller invokes Marker.CreateMarker(iconInfo).
Request(info) ==
    LET e == CreateMarker(info, MarkerCache)
    IN  /\ IsNull(e.load) \/ BagSize(imageLoads) < MaxImageLoads
        /\ MarkerCache' = e.cache
        /\ imageLoads' = IF IsNull(e.load) THEN imageLoads ELSE BagAdd(imageLoads, Val(e.load))
        /\ lastStep' = StepKind(e)
        /\ UNCHANGED <<layerVars, serviceVars>>

CanvasRequest == \E info \in CanvasMarkerRequests : Request(info)

CircleRequest == \E info \in DynmaicCircleMarkerRequests : Request(info)

FontRequest == \E info \in FontMarkerRequests : Request(info)

RotatedImageRequest == \E info \in RotatedImageMarkerRequests : Request(info)

RoundedImageRequest == \E info \in RoundedImageMarkerRequests : Request(info)

ScaledImageRequest == \E info \in ScaledImageMarkerRequests : Request(info)

\* The browser fires the load event of the image of request info: its onload runs.
LoadEvent(info) ==
    LET e == ImageOnload(info, MarkerCache)
    IN  /\ info \in DOMAIN imageLoads
        /\ MarkerCache' = e.cache
        /\ imageLoads' = BagRemove(imageLoads, info)
        /\ lastStep' = StepKind(e)
        /\ UNCHANGED <<layerVars, serviceVars>>

ImageLoad == \E info \in DOMAIN imageLoads : LoadEvent(info)

MarkerNext ==
    \/ CanvasRequest
    \/ CircleRequest
    \/ FontRequest
    \/ RotatedImageRequest
    \/ RoundedImageRequest
    \/ ScaledImageRequest
    \/ ImageLoad

----------------------------------------------------------------------------
(* BingLayer: the entity methods of one layer                              *)

\* native primitives (Microsoft.Maps.Pushpin / Infobox objects)
Pushpins == {"pin1", "pin2", "pin3"}

\* entity.name in JavaScript: undefined when the object has no such property
Prop(entity, name) == IF name \in DOMAIN entity THEN entity[name] ELSE Null

\* if (x): an object is truthy, null and undefined are not
Truthy(x) == ~IsNull(x)

\* Entities handed to a layer: markers and info windows, whose only property of
\* that kind is NativePrimitve (a native object, or nothing yet), and one
\* object of type any that carries a NativePRimitive property as well.
Entities ==
    {[NativePrimitve |-> Some(p)] : p \in Pushpins}
    \cup {[NativePrimitve |-> Null]}
    \cup {[NativePrimitve |-> Some("pin1"), NativePRimitive |-> Some("pin1")]}

\* Microsoft.Maps.Layer.add(primitive)
LayerAdd(layer, p) == Append(layer, p)

\* Microsoft.Maps.Layer.remove(primitive): takes out the primitive's first occurrence
LayerRemove(layer, p) ==
    IF \E i \in DOMAIN layer : layer[i] = p
    THEN LET i == CHOOSE j \in DOMAIN layer :
                      layer[j] = p /\ \A h \in 1..(j - 1) : layer[h] # p
         IN  SubSeq(layer, 1, i - 1) \o SubSeq(layer, i + 1, Len(layer))
    ELSE layer

\* a layer that adds the array to what it holds
LayerSetPrimitivesKeeping(layer, p) == layer \o p

\* Microsoft.Maps.Layer.setPrimitives(array)
LayerSetPrimitives(layer, p) == p

\* if (entity.NativePrimitve) this._layer.add(entity.NativePrimitve);
AddEntityTo(layer, entity) ==
    IF Truthy(Prop(entity, "NativePrimitve"))
    THEN LayerAdd(layer, Val(Prop(entity, "NativePrimitve")))
    ELSE layer

\* if (entity.NativePRimitive) this._layer.remove(entity.NativePrimitve);
RemoveEntityFrom(layer, entity) ==
    IF Truthy(Prop(entity, "NativePRimitive"))
    THEN LayerRemove(layer, Val(Prop(entity, "NativePrimitve")))
    ELSE layer

\* entities.forEach(e => { if (e.NativePrimitve) p.push(e.NativePrimitve); })
RECURSIVE PushNatives(_, _)
PushNatives(p, entities) ==
    IF entities = <<>> THEN p
    ELSE LET e == Head(entities)
         IN  PushNatives(IF Truthy(Prop(e, "NativePrimitve"))
                         THEN Append(p, Val(Prop(e, "NativePrimitve"))) ELSE p,
                         Tail(entities))

\* let p = new Array(); entities.forEach(...); this._layer.setPrimitives(p);
SetEntitiesOf(layer, entities) == LayerSetPrimitives(layer, PushNatives(<<>>, entities))

EntityLists == UNION {[1..n -> Entities] : n \in 0..MaxPrimitives}

LayerInit ==
    /\ primitives = <<>>
    /\ layerCall = [op |-> "none", arg |-> <<>>]

AddEntity ==
    \E e \in Entities :
        /\ Len(primitives) < MaxPrimitives
        /\ primitives' = AddEntityTo(primitives, e)
        /\ layerCall' = [op |-> "AddEntity", arg |-> <<e>>]
        /\ UNCHANGED <<markerVars, serviceVars>>

RemoveEntity ==
    \E e \in Entities :
        /\ primitives' = RemoveEntityFrom(primitives, e)
        /\ layerCall' = [op |-> "RemoveEntity", arg |-> <<e>>]
        /\ UNCHANGED <<markerVars, serviceVars>>

SetEntities ==
    \E entities \in EntityLists :
        /\ primitives' = SetEntitiesOf(primitives, entities)
        /\ layerCall' = [op |-> "SetEntities", arg |-> entities]
        /\ UNCHANGED <<markerVars, serviceVars>>

LayerNext ==
    \/ AddEntity
    \/ RemoveEntity
    \/ SetEntities

----------------------------------------------------------------------------------------------------------------------------------------------------
(* BingMapService                                                          *)
(*                                                                         *)
(* Promises: a promise is pending (value Null) with the reactions that     *)
(* then() registered on it, or fulfilled with a value.  Fulfilling it, or  *)
(* calling then() on a fulfilled promise, queues a microtask per reaction. *)
(* Callers may call the service between any two microtasks.                *)

\* the location map.getCenter() returns
MapGetCenter(m) == "center"

\* the arguments of CreateInfoWindow: omitted, or options with and without a position
InfoWindowOptions ==
    {Null, Some([position |-> Null]), Some([position |-> Some("position")])}

\* the event names used
EventNames == {"click", "viewchange"}

\* An observer of the events named eventName: the map its handler was added
\* to (none yet) and the number of times its next() was called.
Observer(eventName) == [eventName |-> eventName, handlerOn |-> Null, received |-> 0]

\* Microsoft.Maps.Events.addHandler(m, eventName, e => observer.next(e)) for observer o
AddHandler(obs, o, m) == [obs EXCEPT ![o].handlerOn = Some(m)]

\* Microsoft.Maps.Events.invoke(m, eventName, null): the handlers added to map m
\* for eventName run, each calling next() on its observer
Invoke(obs, m, eventName) ==
    [o \in DOMAIN obs |->
        IF obs[o].handlerOn = Some(m) /\ obs[o].eventName = eventName
        THEN [obs[o] EXCEPT !.received = @ + 1]
        ELSE obs[o]]

\* the operations that start with this._map.then(...)
MapOperations ==
    {"CreateLayer", "CreateClusterLayer", "CreateMarker", "CreateInfoWindow",
     "DeleteLayer", "GetCenter", "GetZoom", "SetCenter", "SetZoom", "SetMapOptions",
     "SetViewOptions", "LocationToPoint", "SubscribeToMapEvent", "TriggerMapEvent"}

\* A reaction: the operation kind, its argument (the layer of DeleteLayer),
\* whether it had to wait for the promise, and the value it is run with.
Job(kind, arg, waited, map) == [kind |-> kind, arg |-> arg, waited |-> waited, map |-> map]

\* new Promise(resolve => { this._mapResolver = resolve; })
NewPromise == [value |-> Null, reactions |-> <<>>]

\* promise.then(reaction) that queues the reaction at once, whatever the promise's state
ThenWithoutWaiting(promise, tasks, kind, arg) ==
    [promise |-> promise,
     tasks   |-> Append(tasks, Job(kind, arg, FALSE, promise.value))]

\* promise.then(reaction)
Then(promise, tasks, kind, arg) ==
    IF IsNull(promise.value)
    THEN [promise |-> [promise EXCEPT !.reactions = Append(@, Job(kind, arg, TRUE, Null))],
          tasks   |-> tasks]
    ELSE [promise |-> promise,
          tasks   |-> Append(tasks, Job(kind, arg, FALSE, promise.value))]

\* this._mapResolver(map): fulfils the promise unless it is fulfilled already
Resolve(promise, tasks, m) ==
    IF ~IsNull(promise.value) THEN [promise |-> promise, tasks |-> tasks]
    ELSE [promise |-> [value |-> Some(m), reactions |-> <<>>],
          tasks   |-> tasks \o [i \in DOMAIN promise.reactions |->
                                   [promise.reactions[i] EXCEPT !.map = Some(m)]]]

\* operations requested and not yet carried out
OpsInFlight ==
    Len(mapPromise.reactions)
    + Cardinality({i \in DOMAIN microtasks : microtasks[i].kind # "CreateMap"})
    + Len(moduleLoads)

\* layers created or about to be
LayersInFlight ==
    Cardinality(DOMAIN layerHome)
    + Cardinality({i \in DOMAIN mapPromise.reactions :
                      mapPromise.reactions[i].kind \in {"CreateLayer", "CreateClusterLayer"}})
    + Cardinality({i \in DOMAIN microtasks :
                      microtasks[i].kind \in {"CreateLayer", "CreateClusterLayer"}})
    + Len(moduleLoads)

\* CreateMap calls made so far
MapsInFlight ==
    Cardinality(DOMAIN maps) + loaderWaiting
    + Cardinality({i \in DOMAIN microtasks : microtasks[i].kind = "CreateMap"})

ServiceInit ==
    /\ loaderLoaded = FALSE
    /\ loaderWaiting = 0
    /\ microtasks = <<>>
    /\ mapPromise = NewPromise
    /\ mapInstance = Null
    /\ maps = <<>>
    /\ layerHome = <<>>
    /\ layerDisposed = {}
    /\ moduleLoads = <<>>
    /\ rejections = {}
    /\ observers = <<>>

\* A caller requests a map-dependent operation: return this._map.then(map => ...)
Operation(kind, arg) ==
    LET t == Then(mapPromise, microtasks, kind, arg)
    IN  /\ OpsInFlight < MaxOps
        /\ mapPromise' = t.promise
        /\ microtasks' = t.tasks
        /\ UNCHANGED <<loaderLoaded, loaderWaiting, mapInstance, maps, layerHome,
                       moduleLoads>>
        /\ UNCHANGED <<markerVars, layerVars, rejections>>

CreateLayer ==
    /\ LayersInFlight < MaxLayers
    /\ Operation("CreateLayer", Null)
    /\ UNCHANGED <<layerDisposed, observers>>

CreateClusterLayer ==
    /\ LayersInFlight < MaxLayers
    /\ Operation("CreateClusterLayer", Null)
    /\ UNCHANGED <<layerDisposed, observers>>

ServiceCreateMarker == Operation("CreateMarker", Null) /\ UNCHANGED <<layerDisposed, observers>>

\* CreateInfoWindow(options?): the argument is omitted, or an options object
\* whose position is null or a location
CreateInfoWindow ==
    \E options \in InfoWindowOptions :
        Operation("CreateInfoWindow", options) /\ UNCHANGED <<layerDisposed, observers>>

DeleteLayer ==
    \E layer \in DOMAIN layerHome :
        Operation("DeleteLayer", Some(layer)) /\ UNCHANGED <<layerDisposed, observers>>

GetCenter == Operation("GetCenter", Null) /\ UNCHANGED <<layerDisposed, observers>>

GetZoom == Operation("GetZoom", Null) /\ UNCHANGED <<layerDisposed, observers>>

LocationToPoint == Operation("LocationToPoint", Null) /\ UNCHANGED <<layerDisposed, observers>>

SetCenter == Operation("SetCenter", Null) /\ UNCHANGED <<layerDisposed, observers>>

SetMapOptions == Operation("SetMapOptions", Null) /\ UNCHANGED <<layerDisposed, observers>>

SetViewOptions == Operation("SetViewOptions", Null) /\ UNCHANGED <<layerDisposed, observers>>

SetZoom == Operation("SetZoom", Null) /\ UNCHANGED <<layerDisposed, observers>>

\* An observer subscribes to the observable SubscribeToMapEvent(eventName)
\* returned: this._map.then(m => Microsoft.Maps.Events.addHandler(m, eventName, ...))
SubscribeToMapEvent ==
    \E eventName \in EventNames :
        /\ Len(observers) < MaxObservers
        /\ observers' = Append(observers, Observer(eventName))
        /\ Operation("SubscribeToMapEvent", Some(Len(observers) + 1))
        /\ UNCHANGED layerDisposed

\* TriggerMapEvent(eventName)
TriggerMapEvent ==
    \E eventName \in EventNames :
        /\ \A o \in DOMAIN observers : observers[o].received < MaxNotifications
        /\ Operation("TriggerMapEvent", Some(eventName))
        /\ UNCHANGED <<layerDisposed, observers>>

\* BingLayer.Delete(): this._maps.DeleteLayer(this); this._layer.dispose();
BingLayerDelete ==
    \E layer \in DOMAIN layerHome :
        /\ Operation("DeleteLayer", Some(layer))
        /\ layerDisposed' = layerDisposed \cup {layer}
        /\ UNCHANGED observers

\* CreateMap(el, mapOptions): return this._loader.Load().then(() => {...})
CreateMap ==
    /\ MapsInFlight < MaxMaps
    /\ IF loaderLoaded
       THEN /\ microtasks' = Append(microtasks, Job("CreateMap", Null, FALSE, Null))
            /\ UNCHANGED loaderWaiting
       ELSE /\ loaderWaiting' = loaderWaiting + 1
            /\ UNCHANGED microtasks
    /\ UNCHANGED <<loaderLoaded, mapPromise, mapInstance, maps, layerHome, layerDisposed,
                   moduleLoads>>
    /\ UNCHANGED <<markerVars, layerVars, rejections, observers>>

\* The map control script has loaded: the loader's promise is fulfilled.
LoaderLoaded ==
    /\ ~loaderLoaded
    /\ loaderLoaded' = TRUE
    /\ microtasks' = microtasks \o [i \in 1..loaderWaiting |->
                                       Job("CreateMap", Null, FALSE, Null)]
    /\ loaderWaiting' = 0
    /\ UNCHANGED <<mapPromise, mapInstance, maps, layerHome, layerDisposed,
                   moduleLoads>>
    /\ UNCHANGED <<markerVars, layerVars, rejections, observers>>

\* The state DisposeMap() leaves: the promise, the instance and the maps.
Disposed(promise, instance, ms) ==
    IF IsNull(instance)
    THEN [promise |-> promise, instance |-> instance, maps |-> ms]
    ELSE [promise  |-> NewPromise,
          instance |-> Null,
          maps     |-> [ms EXCEPT ![Val(instance)].disposed = TRUE]]

\* A caller calls DisposeMap().
DisposeMap ==
    LET d == Disposed(mapPromise, mapInstance, maps)
    IN  /\ mapPromise' = d.promise
        /\ mapInstance' = d.instance
        /\ maps' = d.maps
        /\ UNCHANGED <<loaderLoaded, loaderWaiting, microtasks, layerHome, layerDisposed,
                       moduleLoads>>
        /\ UNCHANGED <<markerVars, layerVars, rejections, observers>>

\* The continuation of CreateMap: if (this._mapInstance != null) this.DisposeMap();
\* let map = new Microsoft.Maps.Map(el, o); this._mapInstance = map;
\* this._mapResolver(map);
RunCreateMap ==
    /\ microtasks # <<>>
    /\ Head(microtasks).kind = "CreateMap"
    /\ LET d == Disposed(mapPromise, mapInstance, maps)
           m == Len(maps) + 1
           r == Resolve(d.promise, Tail(microtasks), m)
       IN  /\ maps' = Append(d.maps, [disposed |-> FALSE, layers |-> {}, infoboxes |-> {}])
           /\ mapInstance' = Some(m)
           /\ mapPromise' = r.promise
           /\ microtasks' = r.tasks
    /\ UNCHANGED <<loaderLoaded, loaderWaiting, layerHome, layerDisposed, moduleLoads>>
    /\ UNCHANGED <<markerVars, layerVars, rejections, observers>>

\* new Microsoft.Maps.Layer(...) / ClusterLayer(...); map.layers.insert(layer);
InsertNewLayer(m) ==
    LET layer == Len(layerHome) + 1
    IN  /\ layerHome' = Append(layerHome, m)
        /\ maps' = [maps EXCEPT ![m].layers = @ \cup {layer}]

\* The reaction of CreateInfoWindow run with map m: options.position throws a
\* TypeError when options is undefined; otherwise the Infobox is placed at the
\* map's centre or at options.position.
InfoWindowReaction(options, m) ==
    IF IsNull(options)
    THEN [threw |-> TRUE, loc |-> Null]
    ELSE [threw |-> FALSE,
          loc   |-> IF IsNull(Val(options).position)
                    THEN Some(MapGetCenter(m))
                    ELSE Val(options).position]

\* The reaction of a map-dependent operation runs with the map of the promise.
RunOperation ==
    /\ microtasks # <<>>
    /\ Head(microtasks).kind # "CreateMap"
    /\ LET job == Head(microtasks)
           m == Val(job.map)
       IN  /\ microtasks' = Tail(microtasks)
           /\ CASE job.kind = "CreateLayer" ->
                     /\ InsertNewLayer(m)
                     /\ UNCHANGED <<moduleLoads, rejections, observers>>
                [] job.kind = "CreateClusterLayer" ->
                     \* Microsoft.Maps.loadModule("Microsoft.Maps.Clustering", () => {...})
                     /\ moduleLoads' = Append(moduleLoads, job)
                     /\ UNCHANGED <<maps, layerHome, rejections, observers>>
                [] job.kind = "DeleteLayer" ->
                     \* map.layers.remove(layer.NativePrimitve)
                     /\ maps' = [maps EXCEPT ![m].layers = @ \ {Val(job.arg)}]
                     /\ UNCHANGED <<layerHome, moduleLoads, rejections, observers>>
                [] job.kind = "CreateInfoWindow" ->
                     \* new Microsoft.Maps.Infobox(loc, ...); infoBox.setMap(map)
                     LET r == InfoWindowReaction(job.arg, m)
                     IN  /\ IF r.threw
                            THEN /\ rejections' = rejections \cup {job.kind}
                                 /\ UNCHANGED maps
                            ELSE /\ maps' = [maps EXCEPT ![m].infoboxes = @ \cup {Val(r.loc)}]
                                 /\ UNCHANGED rejections
                         /\ UNCHANGED <<layerHome, moduleLoads, observers>>
                [] job.kind = "SubscribeToMapEvent" ->
                     \* Microsoft.Maps.Events.addHandler(m, eventName, handler)
                     /\ observers' = AddHandler(observers, Val(job.arg), m)
                     /\ UNCHANGED <<maps, layerHome, moduleLoads, rejections>>
                [] job.kind = "TriggerMapEvent" ->
                     \* Microsoft.Maps.Events.invoke(m, eventName, null); what the
                     \* SDK does with the handlers of a disposed map is not known
                     /\ \E delivers \in (IF maps[m].disposed THEN BOOLEAN ELSE {TRUE}) :
                           observers' = IF delivers
                                        THEN Invoke(observers, m, Val(job.arg))
                                        ELSE observers
                     /\ UNCHANGED <<maps, layerHome, moduleLoads, rejections>>
                [] OTHER ->
                     UNCHANGED <<maps, layerHome, moduleLoads, rejections, observers>>
    /\ UNCHANGED <<loaderLoaded, loaderWaiting, mapPromise, mapInstance, layerDisposed>>
    /\ UNCHANGED <<markerVars, layerVars>>

\* The callback of loadModule runs: the cluster layer is made and inserted.
ModuleLoaded ==
    /\ moduleLoads # <<>>
    /\ LET job == Head(moduleLoads)
       IN  InsertNewLayer(Val(job.map))
    /\ moduleLoads' = Tail(moduleLoads)
    /\ UNCHANGED <<loaderLoaded, loaderWaiting, microtasks, mapPromise, mapInstance,
                   layerDisposed>>
    /\ UNCHANGED <<markerVars, layerVars, rejections, observers>>

ServiceNext ==
    \/ CreateLayer
    \/ CreateClusterLayer
    \/ ServiceCreateMarker
    \/ DeleteLayer
    \/ GetCenter
    \/ GetZoom
    \/ LocationToPoint
    \/ SetCenter
    \/ SetMapOptions
    \/ SetViewOptions
    \/ SetZoom
    \/ BingLayerDelete
    \/ CreateMap
    \/ LoaderLoaded
    \/ DisposeMap
    \/ RunCreateMap
    \/ RunOperation
    \/ ModuleLoaded

\* The map lifecycle with the event subscriptions and triggers.
EventNext ==
    \/ SubscribeToMapEvent
    \/ TriggerMapEvent
    \/ CreateMap
    \/ LoaderLoaded
    \/ DisposeMap
    \/ RunCreateMap
    \/ RunOperation

\* The map lifecycle with CreateInfoWindow as the only map-dependent operation.
InfoWindowNext ==
    \/ CreateInfoWindow
    \/ CreateMap
    \/ LoaderLoaded
    \/ DisposeMap
    \/ RunCreateMap
    \/ RunOperation

----------------------------------------------------------------------------
(* Specifications                                                          *)

vars == <<markerVars, layerVars, serviceVars>>

Init == MarkerInit /\ LayerInit /\ ServiceInit

Next == MarkerNext \/ LayerNext \/ ServiceNext \/ InfoWindowNext \/ EventNext

Spec == Init /\ [][Next]_vars

\* the icon helper alone
SpecMarker == Init /\ [][MarkerNext]_vars

\* one layer alone
SpecLayer == Init /\ [][LayerNext]_vars

\* the map service alone
SpecService == Init /\ [][ServiceNext]_vars

\* the map service creating info windows
SpecInfoWindow == Init /\ [][InfoWindowNext]_vars

\* the map service with event observers
SpecEvents == Init /\ [][EventNext]_vars

----
(* Properties of the icon cache                                            *)

AllRequests == UNION {RequestsOf(t) : t \in MarkerTypeId}

\* the cache holds an entry for the id
Holds(cache, id) == id # Null /\ id[1] \in DOMAIN cache

\* a field the request's marker type requires is null or undefined
MissingRequired(info) == \E f \in RequiredFields[info.markerType] : IsNull(info[f])

\* the image a call hands to its caller: the return value of a canvas, circle
\* or font marker, the first argument of iconInfo.callback for an image marker
Delivered(info, e) ==
    IF info.markerType \in ImageMarkerTypes
    THEN IF Len(e.callbacks) = 1 THEN Some(e.callbacks[1].image) ELSE Null
    ELSE e.ret

\* the call delivered exactly the cached image of its id and adopted its size
DeliversCached(info, e) ==
    LET mi == MarkerCache[Val(info.id)]
    IN  /\ ~e.threw
        /\ Delivered(info, e) = Some(mi.markerIconString)
        /\ e.size = mi.markerSize

\* C1 as stated: once the cache holds an entry for id k, every request with
\* iconInfo.id = k delivers the cached image and adopts the cached size, whatever
\* its other fields are (another marker type, other values, fields missing).
C1_HitWhateverTheFields ==
    \A info \in AllRequests :
        Holds(MarkerCache, info.id) =>
            DeliversCached(info, CreateMarker(info, MarkerCache))

\* C1 amended: once the cache holds an entry for id k, every request with
\* iconInfo.id = k that supplies the fields its own marker type requires delivers
\* the cached image and adopts the cached size, whatever marker type and values
\* filled the entry.
C1_HitWhenArgsValid ==
    \A info \in AllRequests :
        (Holds(MarkerCache, info.id) /\ ~MissingRequired(info)) =>
            DeliversCached(info, CreateMarker(info, MarkerCache))

\* a request was just answered from the cache while the cache holds, for both
\* ids, images drawn for different marker types
C1_Witness ==
    /\ lastStep = "cached"
    /\ DOMAIN MarkerCache = Ids
    /\ \E j, k \in Ids :
          MarkerCache[j].markerIconString.kind # MarkerCache[k].markerIconString.kind

\* produced from cache by a step of the request info: nothing is removed and
\* only the entry of info.id may be new or different
WritesOnlyOwnEntry(info, cache, after) ==
    /\ DOMAIN cache \subseteq DOMAIN after
    /\ \A k \in DOMAIN after :
          Some(k) # info.id => (k \in DOMAIN cache /\ after[k] = cache[k])

\* C3: no CreateMarker request and no load callback removes an id from the cache;
\* each can add or write only the entry of its own non-null iconInfo.id, and
\* with a null id leaves the whole cache unchanged.
C3_NoEviction ==
    /\ \A info \in AllRequests :
          WritesOnlyOwnEntry(info, MarkerCache, CreateMarker(info, MarkerCache).cache)
    /\ \A info \in DOMAIN imageLoads :
          WritesOnlyOwnEntry(info, MarkerCache, ImageOnload(info, MarkerCache).cache)

\* both ids are cached, an image with an id and one without are still loading
C3_Witness ==
    /\ DOMAIN MarkerCache = Ids
    /\ \E info \in DOMAIN imageLoads : IsNull(info.id)
    /\ \E info \in DOMAIN imageLoads : ~IsNull(info.id)

\* C4: a request that lacks a field its marker type requires throws, and then
\* the cache is unchanged, iconInfo.size is untouched, the callback is not
\* invoked and no image is left loading that would invoke it later; also when
\* the request's id is cached.
C4_MissingFieldThrows ==
    \A info \in AllRequests :
        MissingRequired(info) =>
            LET e == CreateMarker(info, MarkerCache)
            IN  /\ e.threw
                /\ e.cache = MarkerCache
                /\ e.size = info.size
                /\ e.callbacks = <<>>
                /\ IsNull(e.load)

\* a request has just thrown while both ids were cached
C4_Witness == lastStep = "threw" /\ DOMAIN MarkerCache = Ids

C2_Memoized ==
    [][ /\ \A info \in AllRequests :
              (Request(info) /\ Holds(MarkerCache, info.id) /\ ~MissingRequired(info)) =>
                  LET e == CreateMarker(info, MarkerCache)
                  IN  ~e.generated /\ DeliversCached(info, e)
        /\ \A info \in DOMAIN imageLoads :
              (LoadEvent(info) /\ Holds(MarkerCache, info.id)) =>
                  LET e == ImageOnload(info, MarkerCache)
                  IN  ~e.generated /\ DeliversCached(info, e) ]_vars

\* C13 as stated: a FontMarker request whose iconInfo.text is null or undefined
\* throws the validation Error, draws no image and leaves the icon cache
\* unchanged.
C13_FontTextRequired ==
    [][ \A info \in RequestsOf("FontMarker") :
            (Request(info) /\ info.text = Null) =>
                LET e == CreateMarker(info, MarkerCache)
                IN  e.threw /\ ~e.generated /\ MarkerCache' = MarkerCache ]_vars

----------------------------------------------------------------------------
(* Properties of BingLayer                                                 *)

HasNative(entity) == ~IsNull(entity.NativePrimitve)

Without(layer, p) == SelectSeq(layer, LAMBDA x : x # p)

\* C8 as stated: RemoveEntity(e) called right after AddEntity(e), for an entity
\* e that has a native primitive, leaves the layer without e's primitive and
\* with its other primitives as they were.
C8_RemoveAfterAdd ==
    [][ ( /\ layerCall.op = "AddEntity"
          /\ layerCall'.op = "RemoveEntity"
          /\ layerCall'.arg = layerCall.arg
          /\ HasNative(layerCall.arg[1]) )
        => primitives' = Without(primitives, Val(layerCall.arg[1].NativePrimitve)) ]_vars

\* the native primitives of the entities that have one, in the order given
NativesOf(entities) ==
    LET having == SelectSeq(entities, HasNative)
    IN  [i \in 1..Len(having) |-> Val(having[i].NativePrimitve)]

\* C9: after SetEntities(entities) the layer's primitives are exactly the native
\* primitives of the supplied entities that have one, in the supplied order,
\* whatever the layer held before.
C9_SetEntitiesReplaces ==
    layerCall.op = "SetEntities" => primitives = NativesOf(layerCall.arg)

\* SetEntities has just replaced the content of the layer with the primitives
\* of a list in which one entity has no native primitive
C9_Witness ==
    /\ layerCall.op = "SetEntities"
    /\ \E i \in DOMAIN layerCall.arg : ~HasNative(layerCall.arg[i])
    /\ Len(primitives) = 2
    /\ primitives[1] # primitives[2]

----------------------------------------------------------------------------
(* Properties of BingMapService                                            *)

\* the reactions of map-dependent operations that are ready to run or have
\* started (a cluster layer waiting for its module)
StartedOperations ==
    {microtasks[i] : i \in {j \in DOMAIN microtasks : microtasks[j].kind # "CreateMap"}}
    \cup {moduleLoads[i] : i \in DOMAIN moduleLoads}

\* C5: no map-dependent operation makes its SDK call or fulfils its promise
\* before a CreateMap call has completed: its reaction becomes ready only with a
\* map that a CreateMap continuation constructed after the loader had loaded,
\* and until then no layer exists.
C5_NothingBeforeCreateMap ==
    /\ \A job \in StartedOperations :
          /\ loaderLoaded
          /\ ~IsNull(job.map)
          /\ Val(job.map) \in DOMAIN maps
    /\ maps = <<>> => (StartedOperations = {} /\ layerHome = <<>>)

\* an operation requested before the map existed is ready to run, with the
\* service's current map
C5_Witness ==
    \E job \in StartedOperations : job.waited /\ job.map = mapInstance

\* the service's current map: constructed, not disposed, held in _mapInstance
IsCurrentMap(m) == m = mapInstance /\ ~IsNull(m) /\ ~maps[Val(m)].disposed

\* C6 as stated (its safety half): an operation requested while no map existed
\* is carried out against the map of the CreateMap that released it while that
\* map is the service's current, non-disposed map.
C6_RunsOnCurrentMap ==
    [][ /\ (RunOperation /\ Head(microtasks).waited) => IsCurrentMap(Head(microtasks).map)
        /\ (ModuleLoaded /\ Head(moduleLoads).waited) => IsCurrentMap(Head(moduleLoads).map)
      ]_vars

\* C10 as stated (its safety half): DeleteLayer removes the layer from the
\* layers collection of the map into which the layer was inserted, also when
\* DisposeMap or another CreateMap happened in between.
C10_DeletesFromOwnMap ==
    [][ (RunOperation /\ Head(microtasks).kind = "DeleteLayer") =>
            Head(microtasks).map = Some(layerHome[Val(Head(microtasks).arg)]) ]_vars

\* C11 as stated: a CreateInfoWindow call with its options argument omitted is
\* never rejected; its reaction attaches an info window at the map's centre to
\* the map, as a call whose options carry a null position does.
C11_OptionsOmitted ==
    [][ ( /\ RunOperation
          /\ Head(microtasks).kind = "CreateInfoWindow"
          /\ Head(microtasks).arg = Null ) =>
            LET m == Head(microtasks).map[1]
            IN  /\ rejections' = rejections
                /\ maps' = [maps EXCEPT ![m].infoboxes = @ \cup {"center"}] ]_vars

\* C12 as stated (for a trigger that reaches the service's current map): when
\* the reaction of TriggerMapEvent(name) runs, every observer that subscribed to
\* name before and whose handler has been added receives exactly one
\* notification, also when the map was disposed and re-created in between.
C12_ObserverNotified ==
    [][ ( /\ RunOperation
          /\ Head(microtasks).kind = "TriggerMapEvent"
          /\ IsCurrentMap(Head(microtasks).map) ) =>
            \A o \in DOMAIN observers :
                ( /\ observers[o].eventName = Head(microtasks).arg[1]
                  /\ observers[o].handlerOn # Null ) =>
                    observers'[o].received = observers[o].received + 1 ]_vars

====
